---- MODULE Spec2Model ----
(***************************************************************************)
(* Model of the document ingestion pipeline of UploadDocumentModal         *)
(* (handleUpload and the controls around it).                              *)
(*                                                                         *)
(* A text (a JavaScript string) is a sequence of characters, each a string. *)
(* A JavaScript value is a record tagged by its type in field t.           *)
(***************************************************************************)
EXTENDS Integers, Sequences, FiniteSets, TLC

(***************************************************************************)
(* Bounds                                                                  *)
(***************************************************************************)
\* number of handleUpload invocations that pass validation in one behaviour
MaxCalls == 1

(***************************************************************************)
(* Texts                                                                   *)
(***************************************************************************)
NL == "\n"
\* the backtick character (the lexer of TLA+ admits none in a string)
BT == "BACKTICK"
QT == "\""

IsSpace(c) == c \in {" ", NL}

FENCE == <<BT, BT, BT>>
FENCE_JSON == <<BT, BT, BT, "j", "s", "o", "n">>

\* s.substring(i - 1): the suffix of s that starts at (1-based) position i
Drop(s, i) == SubSeq(s, i, Len(s))

\* does p occur in s at position i
MatchAt(s, p, i) ==
    /\ i + Len(p) - 1 <= Len(s)
    /\ \A k \in 1..Len(p) : s[i + k - 1] = p[k]

startsWith(s, p) == MatchAt(s, p, 1)

endsWith(s, p) == Len(p) <= Len(s) /\ MatchAt(s, p, Len(s) - Len(p) + 1)

includes(s, p) == \E i \in 1..(Len(s) + 1) : MatchAt(s, p, i)

RECURSIVE TrimStart(_)
TrimStart(s) ==
    IF s # <<>> /\ IsSpace(Head(s)) THEN TrimStart(Tail(s)) ELSE s

RECURSIVE TrimEnd(_)
TrimEnd(s) ==
    IF s # <<>> /\ IsSpace(s[Len(s)]) THEN TrimEnd(SubSeq(s, 1, Len(s) - 1)) ELSE s

trim(s) == TrimEnd(TrimStart(s))

\* s.replace(/p\n?/g, ""): every occurrence of p, with the newline that may
\* follow it, removed in one left-to-right scan that resumes after each match
RECURSIVE ReplaceAllFrom(_, _, _)
ReplaceAllFrom(s, p, i) ==
    LET matches == {j \in i..Len(s) : MatchAt(s, p, j)} IN
    IF matches = {} THEN Drop(s, i)
    ELSE LET m == CHOOSE j \in matches : \A j2 \in matches : j <= j2
             e == m + Len(p)
             k == IF e <= Len(s) /\ s[e] = NL THEN e + 1 ELSE e
         IN  SubSeq(s, i, m - 1) \o ReplaceAllFrom(s, p, k)

ReplaceAll(s, p) == ReplaceAllFrom(s, p, 1)

\* s.replace(/FENCE\n?$/g, ""): a fence, with the newline that may follow it,
\* removed when it ends the text
ReplaceTrailingFence(s) ==
    IF endsWith(s, FENCE \o <<NL>>) THEN SubSeq(s, 1, Len(s) - 4)
    ELSE IF endsWith(s, FENCE) THEN SubSeq(s, 1, Len(s) - 3)
    ELSE s

Upper == <<"A", "B", "C", "D", "E", "F", "G", "H", "I", "J", "K", "L", "M",
           "N", "O", "P", "Q", "R", "S", "T", "U", "V", "W", "X", "Y", "Z">>
Lower == <<"a", "b", "c", "d", "e", "f", "g", "h", "i", "j", "k", "l", "m",
           "n", "o", "p", "q", "r", "s", "t", "u", "v", "w", "x", "y", "z">>

LowerChar(c) ==
    IF \E i \in 1..26 : Upper[i] = c
    THEN Lower[CHOOSE i \in 1..26 : Upper[i] = c]
    ELSE c

toLowerCase(s) == [i \in 1..Len(s) |-> LowerChar(s[i])]

(***************************************************************************)
(* JavaScript values                                                       *)
(***************************************************************************)
Undefined == [t |-> "undefined"]
Null == [t |-> "null"]
JStr(s) == [t |-> "string", v |-> s]
JNum(n) == [t |-> "number", v |-> n]
JBool(b) == [t |-> "boolean", v |-> b]
JArr(items) == [t |-> "array", v |-> items]
\* an object is the sequence of its <<key, value>> members
JObj(members) == [t |-> "object", v |-> members]

\* ToBoolean
Truthy(x) ==
    CASE x.t = "undefined" -> FALSE
      [] x.t = "null" -> FALSE
      [] x.t = "boolean" -> x.v
      [] x.t = "number" -> x.v # 0
      [] x.t = "string" -> x.v # <<>>
      [] OTHER -> TRUE

\* a || b
Or(a, b) == IF Truthy(a) THEN a ELSE b

\* the member of an object named key; of two members with one name the
\* later one is the value
RECURSIVE Lookup(_, _, _)
Lookup(members, key, i) ==
    IF i = 0 THEN Undefined
    ELSE IF members[i][1] = key THEN members[i][2]
    ELSE Lookup(members, key, i - 1)

length == <<"l", "e", "n", "g", "t", "h">>

\* x.key for x other than null and undefined
Prop(x, key) ==
    CASE x.t = "object" -> Lookup(x.v, key, Len(x.v))
      [] x.t \in {"array", "string"} /\ key = length -> JNum(Len(x.v))
      [] OTHER -> Undefined

(***************************************************************************)
(* JSON.parse, for texts over the characters the model uses: objects,      *)
(* arrays, strings (escapes \" \\ \n), non-negative integers, true, false, *)
(* null, with blanks and newlines as white space.                          *)
(***************************************************************************)
ParseFail == [ok |-> FALSE, val |-> Undefined, next |-> 0]
ParseOk(v, n) == [ok |-> TRUE, val |-> v, next |-> n]

Digits == <<"0", "1", "2", "3", "4", "5", "6", "7", "8", "9">>
IsDigit(c) == \E d \in 1..10 : Digits[d] = c
DigitVal(c) == (CHOOSE d \in 1..10 : Digits[d] = c) - 1

RECURSIVE SkipWs(_, _)
SkipWs(s, i) == IF i <= Len(s) /\ IsSpace(s[i]) THEN SkipWs(s, i + 1) ELSE i

\* the characters of a string literal whose opening quote precedes position i
RECURSIVE ParseChars(_, _, _)
ParseChars(s, i, acc) ==
    IF i > Len(s) THEN ParseFail
    ELSE IF s[i] = QT THEN ParseOk(acc, i + 1)
    ELSE IF s[i] = NL THEN ParseFail
    ELSE IF s[i] = "\\"
         THEN IF i + 1 <= Len(s) /\ s[i + 1] \in {QT, "\\", "n"}
              THEN ParseChars(s, i + 2,
                       Append(acc, IF s[i + 1] = "n" THEN NL ELSE s[i + 1]))
              ELSE ParseFail
    ELSE ParseChars(s, i + 1, Append(acc, s[i]))

RECURSIVE ParseDigits(_, _, _)
ParseDigits(s, i, acc) ==
    IF i <= Len(s) /\ IsDigit(s[i])
    THEN ParseDigits(s, i + 1, 10 * acc + DigitVal(s[i]))
    ELSE ParseOk(JNum(acc), i)

RECURSIVE ParseValue(_, _)
RECURSIVE ParseMembers(_, _, _, _)
RECURSIVE ParseElements(_, _, _, _)

\* the members of an object after its opening brace; i is past white space
ParseMembers(s, i, acc, first) ==
    IF i > Len(s) THEN ParseFail
    ELSE IF first /\ s[i] = "}" THEN ParseOk(JObj(acc), i + 1)
    ELSE IF s[i] # QT THEN ParseFail
    ELSE LET key == ParseChars(s, i + 1, <<>>) IN
         IF ~key.ok THEN ParseFail
         ELSE LET c == SkipWs(s, key.next) IN
              IF c > Len(s) \/ s[c] # ":" THEN ParseFail
              ELSE LET val == ParseValue(s, c + 1) IN
                   IF ~val.ok THEN ParseFail
                   ELSE LET e == SkipWs(s, val.next)
                            members == Append(acc, <<key.val, val.val>>)
                        IN  IF e > Len(s) THEN ParseFail
                            ELSE IF s[e] = "}" THEN ParseOk(JObj(members), e + 1)
                            ELSE IF s[e] = ","
                                 THEN ParseMembers(s, SkipWs(s, e + 1), members, FALSE)
                            ELSE ParseFail

\* the elements of an array after its opening bracket; i is past white space
ParseElements(s, i, acc, first) ==
    IF i > Len(s) THEN ParseFail
    ELSE IF first /\ s[i] = "]" THEN ParseOk(JArr(acc), i + 1)
    ELSE LET val == ParseValue(s, i) IN
         IF ~val.ok THEN ParseFail
         ELSE LET e == SkipWs(s, val.next)
                  items == Append(acc, val.val)
              IN  IF e > Len(s) THEN ParseFail
                  ELSE IF s[e] = "]" THEN ParseOk(JArr(items), e + 1)
                  ELSE IF s[e] = ","
                       THEN ParseElements(s, SkipWs(s, e + 1), items, FALSE)
                  ELSE ParseFail

ParseValue(s, i0) ==
    LET i == SkipWs(s, i0) IN
    IF i > Len(s) THEN ParseFail
    ELSE IF s[i] = "{" THEN ParseMembers(s, SkipWs(s, i + 1), <<>>, TRUE)
    ELSE IF s[i] = "[" THEN ParseElements(s, SkipWs(s, i + 1), <<>>, TRUE)
    ELSE IF s[i] = QT
         THEN LET str == ParseChars(s, i + 1, <<>>) IN
              IF str.ok THEN ParseOk(JStr(str.val), str.next) ELSE ParseFail
    ELSE IF s[i] = "0" THEN ParseOk(JNum(0), i + 1)
    ELSE IF IsDigit(s[i]) THEN ParseDigits(s, i, 0)
    ELSE IF MatchAt(s, <<"t", "r", "u", "e">>, i) THEN ParseOk(JBool(TRUE), i + 4)
    ELSE IF MatchAt(s, <<"f", "a", "l", "s", "e">>, i) THEN ParseOk(JBool(FALSE), i + 5)
    ELSE IF MatchAt(s, <<"n", "u", "l", "l">>, i) THEN ParseOk(Null, i + 4)
    ELSE ParseFail

\* JSON.parse(s): ok is FALSE where JSON.parse throws a SyntaxError
JSONparse(s) ==
    LET r == ParseValue(s, 1) IN
    IF r.ok /\ SkipWs(s, r.next) = Len(s) + 1
    THEN [ok |-> TRUE, val |-> r.val]
    ELSE [ok |-> FALSE, val |-> Undefined]

(***************************************************************************)
(* Conversions of values                                                   *)
(***************************************************************************)
TextUndefined == <<"u", "n", "d", "e", "f", "i", "n", "e", "d">>
TextNull == <<"n", "u", "l", "l">>
TextTrue == <<"t", "r", "u", "e">>
TextFalse == <<"f", "a", "l", "s", "e">>
TextObject == <<"[", "o", "b", "j", "e", "c", "t", " ", "O", "b", "j", "e", "c", "t", "]">>

\* the decimal digits of a natural number
RECURSIVE NumToText(_)
NumToText(n) ==
    IF n < 10 THEN <<Digits[n + 1]>>
    ELSE NumToText(n \div 10) \o <<Digits[(n % 10) + 1]>>

\* String(x), the conversion a template literal applies
RECURSIVE ToText(_)
RECURSIVE Join(_, _)
Join(items, i) ==
    IF i > Len(items) THEN <<>>
    ELSE (IF i > 1 THEN <<",">> ELSE <<>>)
         \o (IF items[i].t \in {"null", "undefined"} THEN <<>> ELSE ToText(items[i]))
         \o Join(items, i + 1)

ToText(x) ==
    CASE x.t = "string" -> x.v
      [] x.t = "undefined" -> TextUndefined
      [] x.t = "null" -> TextNull
      [] x.t = "boolean" -> IF x.v THEN TextTrue ELSE TextFalse
      [] x.t = "number" -> NumToText(x.v)
      [] x.t = "array" -> Join(x.v, 1)
      [] OTHER -> TextObject

\* x > 0 for x a number, a boolean, null or undefined (the values the length
\* of the model's tests member takes here)
GreaterThanZero(x) ==
    CASE x.t = "number" -> x.v > 0
      [] x.t = "boolean" -> x.v
      [] OTHER -> FALSE

(***************************************************************************)
(* Member names and literals of the handler                                *)
(***************************************************************************)
report_title == <<"r", "e", "p", "o", "r", "t", "_", "t", "i", "t", "l", "e">>
doctor_name == <<"d", "o", "c", "t", "o", "r", "_", "n", "a", "m", "e">>
report_date == <<"r", "e", "p", "o", "r", "t", "_", "d", "a", "t", "e">>
tests == <<"t", "e", "s", "t", "s">>
summary == <<"s", "u", "m", "m", "a", "r", "y">>
parameter == <<"p", "a", "r", "a", "m", "e", "t", "e", "r">>
value == <<"v", "a", "l", "u", "e">>
unit == <<"u", "n", "i", "t">>
reference_range == <<"r", "e", "f", "e", "r", "e", "n", "c", "e", "_", "r", "a", "n", "g", "e">>
status == <<"s", "t", "a", "t", "u", "s">>
NotSpecified == <<"N", "o", "t", " ", "s", "p", "e", "c", "i", "f", "i", "e", "d">>
NoSummaryAvailable == <<"N", "o", " ", "s", "u", "m", "m", "a", "r", "y", " ", "a", "v", "a", "i", "l", "a", "b", "l", "e">>
blood == <<"b", "l", "o", "o", "d">>
kidney == <<"k", "i", "d", "n", "e", "y">>
liver == <<"l", "i", "v", "e", "r">>
thyroid == <<"t", "h", "y", "r", "o", "i", "d">>
prescription == <<"p", "r", "e", "s", "c", "r", "i", "p", "t", "i", "o", "n">>

PDF == "application/pdf"

(***************************************************************************)
(* handleUpload: parsing of the model's answer                             *)
(***************************************************************************)
\* the answer trimmed and freed of code fences
CleanJson(aiAnalysis) ==
    LET cleanedJson == trim(aiAnalysis) IN
    IF startsWith(cleanedJson, FENCE_JSON)
    THEN ReplaceTrailingFence(ReplaceAll(cleanedJson, FENCE_JSON))
    ELSE IF startsWith(cleanedJson, FENCE)
    THEN ReplaceAll(cleanedJson, FENCE)
    ELSE cleanedJson

\* the fallback wraps the cleaned text, not the raw answer
ParseAnalysis_cleaned(aiAnalysis) ==
    LET r == JSONparse(CleanJson(aiAnalysis)) IN
    IF r.ok THEN r.val ELSE JObj(<< <<summary, JStr(CleanJson(aiAnalysis))>> >>)

\* a parsed value that is falsy is replaced by the fallback as well
ParseAnalysis_falsy(aiAnalysis) ==
    LET r == JSONparse(CleanJson(aiAnalysis)) IN
    IF r.ok /\ Truthy(r.val) THEN r.val ELSE JObj(<< <<summary, JStr(aiAnalysis)>> >>)

\* parsedAnalysis after the inner try/catch: the parsed value, or the raw
\* answer wrapped as a summary when JSON.parse throws
ParseAnalysis(aiAnalysis) ==
    LET r == JSONparse(CleanJson(aiAnalysis)) IN
    IF r.ok THEN r.val ELSE JObj(<< <<summary, JStr(aiAnalysis)>> >>)

(***************************************************************************)
(* handleUpload: assembly of documentData                                  *)
(***************************************************************************)
\* value and unit change places
AnomalyLine_swapped(test) ==
    ToText(Prop(test, parameter)) \o <<":", " ">>
    \o ToText(Prop(test, unit)) \o <<" ">>
    \o ToText(Prop(test, value)) \o <<" ", "(">>
    \o ToText(Prop(test, status)) \o <<")">>

\* the line of one test in anomalies
AnomalyLine(test) ==
    ToText(Prop(test, parameter)) \o <<":", " ">>
    \o ToText(Prop(test, value)) \o <<" ">>
    \o ToText(Prop(test, unit)) \o <<" ", "(">>
    \o ToText(Prop(test, status)) \o <<")">>

\* does parsedAnalysis.tests.map(...) run (tests is set and has a length
\* above zero)
HasTests(pa) ==
    /\ Truthy(Prop(pa, tests))
    /\ GreaterThanZero(Prop(Prop(pa, tests), length))

\* the map throws a TypeError when tests has no map method or when reading
\* a member of a null test
MapThrows(pa) ==
    LET ts == Prop(pa, tests) IN
    \/ ts.t # "array"
    \/ \E i \in 1..Len(ts.v) : ts.v[i].t = "null"

\* parsedAnalysis.report_title?.toLowerCase() throws a TypeError when the
\* title is neither null, undefined nor a string
LowerThrows(pa) ==
    Prop(pa, report_title).t \notin {"undefined", "null", "string"}

\* parsedAnalysis.report_title?.toLowerCase() || ""
LowerTitle(pa) ==
    LET rt == Prop(pa, report_title) IN
    IF rt.t = "string" THEN toLowerCase(rt.v) ELSE <<>>

\* the rules for kidney and blood are exchanged
Category_swapped(reportTitle) ==
    IF includes(reportTitle, kidney) THEN "Kidney Function"
    ELSE IF includes(reportTitle, blood) THEN "Blood Test"
    ELSE IF includes(reportTitle, liver) THEN "Liver Function"
    ELSE IF includes(reportTitle, thyroid) THEN "Thyroid"
    ELSE IF includes(reportTitle, prescription) THEN "Prescription"
    ELSE "General Medical Report"

Category(reportTitle) ==
    IF includes(reportTitle, blood) THEN "Blood Test"
    ELSE IF includes(reportTitle, kidney) THEN "Kidney Function"
    ELSE IF includes(reportTitle, liver) THEN "Liver Function"
    ELSE IF includes(reportTitle, thyroid) THEN "Thyroid"
    ELSE IF includes(reportTitle, prescription) THEN "Prescription"
    ELSE "General Medical Report"

\* the aiAnalysis member of documentData
AiAnalysis(documentTitle, pa) ==
    [t |-> "object",
     reportTitle |-> Or(Prop(pa, report_title), JStr(documentTitle)),
     doctorName |-> Or(Prop(pa, doctor_name), JStr(NotSpecified)),
     reportDate |-> Or(Prop(pa, report_date), JStr(NotSpecified)),
     tests |-> Or(Prop(pa, tests), JArr(<<>>)),
     summary |-> Or(Prop(pa, summary), JStr(NoSummaryAvailable))]

\* does the assembly of documentData throw
AssemblyThrows(pa) ==
    /\ Truthy(pa)
    /\ \/ HasTests(pa) /\ MapThrows(pa)
       \/ LowerThrows(pa)

\* documentData as handed to addDoc; a member the code does not set is
\* Undefined
DocumentData(documentTitle, fileName, fileType, extractedText, pa) ==
    LET base == [title |-> documentTitle,
                 fileName |-> fileName,
                 fileType |-> fileType,
                 extractedText |-> IF Truthy(extractedText) THEN extractedText
                                   ELSE Undefined]
    IN
    IF Truthy(pa)
    THEN base @@
         [aiAnalysis |-> AiAnalysis(documentTitle, pa),
          anomalies |-> IF HasTests(pa)
                        THEN JArr([i \in 1..Len(Prop(pa, tests).v) |->
                                      JStr(AnomalyLine(Prop(pa, tests).v[i]))])
                        ELSE JArr(<<>>),
          hasAnomalies |-> JBool(HasTests(pa)),
          anomalyCount |-> IF HasTests(pa) THEN Prop(Prop(pa, tests), length)
                           ELSE JNum(0),
          category |-> Category(LowerTitle(pa)),
          processingStatus |-> "completed"]
    ELSE base @@
         [aiAnalysis |-> Undefined,
          anomalies |-> Undefined,
          hasAnomalies |-> Undefined,
          anomalyCount |-> Undefined,
          category |-> "Uncategorized",
          processingStatus |-> "uploaded_without_analysis"]

(***************************************************************************)
(* extractTextFromPdf and the file chooser                                 *)
(***************************************************************************)
PageHeader == <<"=", "=", "=", " ", "P", "a", "g", "e", " ">>
PageHeaderEnd == <<" ", "=", "=", "=">>

\* items.map(item => item.str).join(" ")
RECURSIVE JoinSpace(_, _)
JoinSpace(items, i) ==
    IF i > Len(items) THEN <<>>
    ELSE (IF i > 1 THEN <<" ">> ELSE <<>>) \o items[i] \o JoinSpace(items, i + 1)

\* fullText as the loop over the pages builds it, from page pageNum on
RECURSIVE PagesText(_, _)
PagesText(pages, pageNum) ==
    IF pageNum > Len(pages) THEN <<>>
    ELSE <<NL, NL>> \o PageHeader \o NumToText(pageNum) \o PageHeaderEnd \o <<NL>>
         \o JoinSpace(pages[pageNum], 1) \o PagesText(pages, pageNum + 1)

\* a failure to read the document is swallowed and gives the empty text
extractTextFromPdf_swallowed(file) ==
    [ok |-> TRUE,
     text |-> IF file.readable THEN trim(PagesText(file.pages, 1)) ELSE <<>>]

\* ok is FALSE where getDocument rejects the bytes
extractTextFromPdf(file) ==
    [ok |-> file.readable,
     text |-> IF file.readable THEN trim(PagesText(file.pages, 1)) ELSE <<>>]

MaxFileSize == 10 * 1024 * 1024

allowedTypes == {"application/pdf", "image/jpeg", "image/png", "image/jpg"}

\* name.replace(/\.[^/.]+$/, ""): the name without its last extension
StripExt(name) ==
    LET dots == {i \in 1..Len(name) : name[i] = "."}
        p == IF dots = {} THEN 0 ELSE CHOOSE i \in dots : \A j \in dots : j <= i
    IN  IF p > 0 /\ p < Len(name) /\ \A k \in (p + 1)..Len(name) : name[k] # "/"
        THEN SubSeq(name, 1, p - 1)
        ELSE name

\* title.replace(/\s+/g, "_"): every run of white space becomes one underscore
RECURSIVE ReplaceSpaces(_, _)
ReplaceSpaces(s, i) ==
    IF i > Len(s) THEN <<>>
    ELSE IF IsSpace(s[i])
         THEN (IF i > 1 /\ IsSpace(s[i - 1]) THEN <<>> ELSE <<"_">>) \o ReplaceSpaces(s, i + 1)
         ELSE <<s[i]>> \o ReplaceSpaces(s, i + 1)

\* name.split(".").pop(): what follows the last dot, the whole name without one
FileExt(name) ==
    LET dots == {i \in 1..Len(name) : name[i] = "."}
        p == IF dots = {} THEN 0 ELSE CHOOSE i \in dots : \A j \in dots : j <= i
    IN  Drop(name, p + 1)

anonymous == <<"a", "n", "o", "n", "y", "m", "o", "u", "s">>

\* the key of the stored file: user, time of the call, title and extension
FileName(timestamp, title, name) ==
    anonymous \o <<"/">> \o NumToText(timestamp) \o <<"-">> \o ReplaceSpaces(title, 1)
    \o <<".">> \o FileExt(name)

\* the title is tested without being trimmed
Invalid_untrimmed(file, title) == file.type = "none" \/ title = <<>>

\* the condition under which handleUpload refuses to start
Invalid(file, title) == file.type = "none" \/ trim(title) = <<>>

\* every file but a PNG image goes through extraction and analysis
IsPdf_notPng(file) == file.type # "image/png"

\* does the file go through extraction and analysis
IsPdf(file) == file.type = PDF

\* the error of the put is not looked at
PutThrows_ignored(uploadError) == FALSE

\* if (uploadError) throw uploadError
PutThrows(uploadError) == uploadError

\* the file just stored is deleted again
StorageAfterFirestoreError_rollback(objects) == SubSeq(objects, 1, Len(objects) - 1)

\* what the catch block of addDoc leaves in the object store: it raises a
\* toast and rethrows, and deletes nothing
StorageAfterFirestoreError(objects) == objects

(***************************************************************************)
(* Inputs: files, titles and answers of the model                          *)
(***************************************************************************)
W_Blood == <<"B", "l", "o", "o", "d">>
W_KIDNEY == <<"K", "I", "D", "N", "E", "Y">>
W_Liver == <<"L", "i", "v", "e", "r">>
W_thyroid == <<"t", "h", "y", "r", "o", "i", "d">>
W_Prescription == <<"P", "r", "e", "s", "c", "r", "i", "p", "t", "i", "o", "n">>
W_Xray == <<"X", "r", "a", "y">>
W_kidney_blood == <<"k", "i", "d", "n", "e", "y", " ", "b", "l", "o", "o", "d">>
W_Thyroid_liver == <<"T", "h", "y", "r", "o", "i", "d", " ", "l", "i", "v", "e", "r">>
W_prescription_Kidney == <<"p", "r", "e", "s", "c", "r", "i", "p", "t", "i", "o", "n", " ", "K", "i", "d", "n", "e", "y">>
W_Bloodwork == <<"B", "l", "o", "o", "d", "w", "o", "r", "k">>
W_Hb == <<"H", "b">>
W_9 == <<"9">>
W_g == <<"g">>
W_12 == <<"1", "2">>
W_LOW == <<"L", "O", "W">>
W_Na == <<"N", "a">>
W_150 == <<"1", "5", "0">>
W_mmol == <<"m", "m", "o", "l">>
W_140 == <<"1", "4", "0">>
W_HIGH == <<"H", "I", "G", "H">>
W_NORMAL == <<"N", "O", "R", "M", "A", "L">>
W_ok == <<"o", "k">>
W_hello == <<"h", "e", "l", "l", "o">>
N_report_pdf == <<"r", "e", "p", "o", "r", "t", ".", "p", "d", "f">>
N_scan_png == <<"s", "c", "a", "n", ".", "p", "n", "g">>
N_photo_jpg == <<"p", "h", "o", "t", "o", ".", "j", "p", "g">>
N_notes_txt == <<"n", "o", "t", "e", "s", ".", "t", "x", "t">>
T_Blood_test == <<"B", "l", "o", "o", "d", " ", "t", "e", "s", "t">>

NoFile == [name |-> <<>>, type |-> "none", size |-> 0, readable |-> FALSE, pages |-> <<>>]

File(name, type, size, readable, pages) ==
    [name |-> name, type |-> type, size |-> size, readable |-> readable, pages |-> pages]

\* the files a user may pick: a two-page report, a PDF without pages, a PDF
\* that cannot be read, two images, a file above the size limit and a file
\* of a type that is not accepted
Files ==
    {File(N_report_pdf, PDF, 2048, TRUE, << <<W_Hb, W_9>>, <<W_Na, W_150>> >>),
     File(N_report_pdf, PDF, 1024, TRUE, <<>>),
     File(N_report_pdf, PDF, 512, FALSE, <<>>),
     File(N_scan_png, "image/png", 4096, TRUE, <<>>),
     File(N_photo_jpg, "image/jpeg", MaxFileSize, TRUE, <<>>),
     File(N_report_pdf, PDF, MaxFileSize + 1, TRUE, <<>>),
     File(N_notes_txt, "text/plain", 10, TRUE, <<>>)}

\* the titles a user may type
Titles == {<<>>, <<" ", " ">>, T_Blood_test}

\* JSON text of a string, a member, an object and an array
Str(s) == <<QT>> \o s \o <<QT>>
Member(k, v) == Str(k) \o <<":">> \o v
RECURSIVE Commas(_, _)
Commas(texts, i) ==
    IF i > Len(texts) THEN <<>>
    ELSE (IF i > 1 THEN <<",">> ELSE <<>>) \o texts[i] \o Commas(texts, i + 1)
Object(members) == <<"{">> \o Commas(members, 1) \o <<"}">>
Array(items) == <<"[">> \o Commas(items, 1) \o <<"]">>

Test(p, v, u, r, st) ==
    Object(<<Member(parameter, Str(p)), Member(value, Str(v)), Member(unit, Str(u)),
             Member(reference_range, Str(r)), Member(status, Str(st))>>)

TestLow == Test(W_Hb, W_9, W_g, W_12, W_LOW)
TestHigh == Test(W_Na, W_150, W_mmol, W_140, W_HIGH)
TestNormal == Test(W_Na, W_140, W_mmol, W_140, W_NORMAL)

Report(title, testTexts) ==
    Object(<<Member(report_title, Str(title)), Member(tests, Array(testTexts)),
             Member(summary, Str(W_ok))>>)

ReportTitles ==
    {W_Blood, W_KIDNEY, W_Liver, W_thyroid, W_Prescription, W_Xray, W_kidney_blood,
     W_Thyroid_liver, W_prescription_Kidney, W_Bloodwork, <<>>}

\* well-formed answers of the expected shape
ReportOutputs ==
    {Report(title, <<TestLow, TestHigh>>) : title \in ReportTitles}
    \cup {Report(W_Blood, <<>>), Report(W_Liver, <<TestNormal, TestLow>>)}

\* well-formed answers whose strings hold fence characters
FenceInString == Object(<<Member(summary, Str(<<"a">> \o FENCE \o <<"b">>))>>)
TagInString == Object(<<Member(summary, Str(<<"a">> \o FENCE_JSON \o <<" ", "b">>))>>)

TaggedFence(text) == FENCE_JSON \o <<NL>> \o text \o <<NL>> \o FENCE
UntaggedFence(text) == FENCE \o <<NL>> \o text \o <<NL>> \o FENCE

\* the well-formed answers that are also given in fences
Fenceable == {Report(W_KIDNEY, <<TestLow, TestHigh>>), FenceInString, TagInString}

FencedOutputs ==
    {TaggedFence(text) : text \in Fenceable} \cup {UntaggedFence(text) : text \in Fenceable}

\* answers JSON.parse rejects, fenced or not
MalformedOutputs ==
    {<<>>, <<" ">>, W_hello, <<" ">> \o W_hello \o <<NL>>,
     <<"{">> \o Member(summary, <<>>),
     TaggedFence(W_hello), UntaggedFence(<<"{">>)}

\* well-formed answers of another shape
ShapeOutputs ==
    {Object(<<Member(tests, Str(<<"x">>))>>),
     Object(<<Member(tests, Array(<<TextNull>>))>>),
     Object(<<Member(tests, Array(<<TestLow, TextNull>>))>>),
     Object(<<Member(tests, <<"5">>)>>),
     Object(<<Member(tests, Array(<<W_12, Str(W_Hb)>>))>>),
     Object(<<Member(report_title, <<"5">>)>>),
     Object(<<Member(report_title, TextNull)>>),
     Object(<<Member(report_title, Str(W_Blood))>>),
     Object(<<Member(report_title, Str(T_Blood_test))>>),
     Object(<<Member(summary, Str(W_ok))>>),
     Object(<<>>), Array(<<>>), TextNull, TextTrue, TextFalse, <<"0">>, <<"7">>,
     Str(W_hello), Str(<<>>)}

ModelOutputs ==
    ReportOutputs \cup {FenceInString, TagInString} \cup FencedOutputs
    \cup MalformedOutputs \cup ShapeOutputs

(***************************************************************************)
(* State                                                                   *)
(***************************************************************************)
VARIABLES
    supabase,        \* is the storage client configured (it is null otherwise)
    geminiApiKey,    \* is the key of the analysis service set
    open,            \* the modal is shown (state of the parent page)
    selectedFile,    \* the chosen file, NoFile for null
    documentTitle,
    uploading,
    uploadProgress,
    pc,              \* where handleUpload stands
    extractedText,   \* local of handleUpload
    aiAnalysis,      \* local of handleUpload: the raw answer of the model
    parsedAnalysis,  \* local of handleUpload
    documentData,    \* local of handleUpload
    objects,         \* the bucket medical-documents of the object store
    documents,       \* the collection documents of the database
    toasts,          \* titles of the toasts raised by the current call
    error,           \* what the outer catch block of the current call caught
    invoked,         \* per stage, how often the current call invoked it
    outcome,         \* per stage, how its invocation in the current call ended
    calls,           \* number of calls that passed validation
    extractLoading,  \* a call of handleExtract is in flight
    aiLoading,       \* a call of handleAnalyze is in flight
    analyzeStage,    \* where handleAnalyze stands
    extractFile,     \* the selectedFile the call of handleExtract closed over
    analyzeFile,     \* the selectedFile the call of handleAnalyze closed over
    previewToast,    \* title of the last toast raised by the two handlers
    aiOutput,        \* the answer handleAnalyze shows, Null for null
    previewText      \* the state extractedText that handleExtract shows

vars == <<supabase, geminiApiKey, open, selectedFile, documentTitle, uploading,
          uploadProgress, pc, extractedText, aiAnalysis, parsedAnalysis,
          documentData, objects, documents, toasts, error, invoked, outcome, calls,
          extractLoading, aiLoading, analyzeStage, extractFile, analyzeFile,
          previewToast, aiOutput, previewText>>

env == <<supabase, geminiApiKey>>
form == <<selectedFile, documentTitle>>
locals == <<extractedText, aiAnalysis, parsedAnalysis, documentData>>
stores == <<objects, documents>>
handlers == <<extractLoading, aiLoading, analyzeStage, extractFile, analyzeFile,
              previewToast>>
shown == <<aiOutput, previewText>>
preview == <<handlers, shown>>

Stages == {"setUploading", "extract", "analyze", "put", "addDoc"}
NotInvoked == [st \in Stages |-> 0]
NoOutcome == [st \in Stages |-> "none"]

InFlight == {"Extracting", "Analyzing", "Uploading", "Persisting"}

Init ==
    /\ supabase \in BOOLEAN
    /\ geminiApiKey \in BOOLEAN
    /\ open = FALSE
    /\ selectedFile = NoFile
    /\ documentTitle = <<>>
    /\ uploading = FALSE
    /\ uploadProgress = ""
    /\ pc = "Idle"
    /\ extractedText = Undefined
    /\ aiAnalysis = Undefined
    /\ parsedAnalysis = Null
    /\ documentData = Undefined
    /\ objects = <<>>
    /\ documents = <<>>
    /\ toasts = <<>>
    /\ error = "none"
    /\ invoked = NotInvoked
    /\ outcome = NoOutcome
    /\ calls = 0
    /\ extractLoading = FALSE
    /\ aiLoading = FALSE
    /\ analyzeStage = "Idle"
    /\ extractFile = NoFile
    /\ analyzeFile = NoFile
    /\ previewToast = ""
    /\ aiOutput = Null
    /\ previewText = Null

(***************************************************************************)
(* The controls of the modal                                               *)
(***************************************************************************)
\* the user acts on the controls until the last upload of the behaviour has
\* ended
Active == calls < MaxCalls \/ pc \in InFlight

\* the page's Upload Document button
OpenModal ==
    /\ Active /\ ~open
    /\ open' = TRUE
    /\ UNCHANGED <<env, form, uploading, uploadProgress, pc, locals, stores,
                   toasts, error, invoked, outcome, calls, preview>>

\* the dialog is dismissed (the Cancel button is disabled during an upload,
\* the dialog's own close control is not)
CloseModal ==
    /\ Active /\ open
    /\ open' = FALSE
    /\ UNCHANGED <<env, form, uploading, uploadProgress, pc, locals, stores,
                   toasts, error, invoked, outcome, calls, preview>>

handleFileChange ==
    /\ Active /\ open /\ ~uploading /\ selectedFile = NoFile
    /\ \E file \in Files :
        IF file.size > MaxFileSize \/ file.type \notin allowedTypes
        THEN UNCHANGED form
        ELSE /\ selectedFile' = file
             /\ documentTitle' = IF documentTitle = <<>> THEN StripExt(file.name)
                                 ELSE documentTitle
    /\ UNCHANGED <<env, open, uploading, uploadProgress, pc, locals, stores,
                   toasts, error, invoked, outcome, calls, preview>>

handleRemoveFile ==
    /\ Active /\ open /\ ~uploading /\ selectedFile # NoFile
    /\ selectedFile' = NoFile
    /\ aiOutput' = Null
    /\ previewText' = Null
    /\ UNCHANGED <<env, open, documentTitle, uploading, uploadProgress, pc, locals,
                   stores, toasts, error, invoked, outcome, calls, handlers>>

\* the title field's onChange
setDocumentTitle ==
    /\ Active /\ open /\ ~uploading
    /\ \E title \in Titles : documentTitle' = title
    /\ UNCHANGED <<env, open, selectedFile, uploading, uploadProgress, pc, locals,
                   stores, toasts, error, invoked, outcome, calls, preview>>

(***************************************************************************)
(* handleUpload, one action per stretch of code between two awaits         *)
(***************************************************************************)
\* the locals of a call that has returned
Return ==
    /\ extractedText' = Undefined
    /\ aiAnalysis' = Undefined
    /\ parsedAnalysis' = Null
    /\ documentData' = Undefined

\* the finally block is left out: the flag and the message stay as they are
Fail_stuck(err, raised, inv, out) ==
    /\ Return
    /\ pc' = "Failed"
    /\ error' = err
    /\ toasts' = raised \o <<"Upload failed">>
    /\ UNCHANGED <<uploading, uploadProgress>>
    /\ invoked' = inv
    /\ outcome' = out

\* the outer catch and finally blocks: the error is shown in a toast, the
\* uploading flag and the progress message are reset, the call returns
Fail(err, raised, inv, out) ==
    /\ Return
    /\ pc' = "Failed"
    /\ error' = err
    /\ toasts' = raised \o <<"Upload failed">>
    /\ uploading' = FALSE
    /\ uploadProgress' = ""
    /\ invoked' = inv
    /\ outcome' = out

\* Upload & Process is clicked: validation, then the first stage is started
handleUpload ==
    /\ open /\ ~uploading /\ pc \notin InFlight
    /\ IF Invalid(selectedFile, documentTitle)
       THEN /\ Return
            /\ pc' = "Failed"
            /\ error' = "ValidationError"
            /\ toasts' = <<"Missing information">>
            /\ invoked' = NotInvoked
            /\ outcome' = NoOutcome
            /\ UNCHANGED <<uploading, uploadProgress, calls>>
       ELSE /\ calls < MaxCalls
            /\ calls' = calls + 1
            /\ IF ~supabase
               THEN Fail("ConfigurationError", <<>>,
                         [NotInvoked EXCEPT !["setUploading"] = 1], NoOutcome)
               ELSE /\ UNCHANGED locals
                    /\ uploading' = TRUE
                    /\ error' = "none"
                    /\ toasts' = <<>>
                    /\ outcome' = NoOutcome
                    /\ IF IsPdf(selectedFile)
                       THEN /\ uploadProgress' = "Extracting text from PDF..."
                            /\ invoked' = [NotInvoked EXCEPT !["setUploading"] = 1,
                                                             !["extract"] = 1]
                            /\ pc' = "Extracting"
                       ELSE /\ uploadProgress' = "Uploading file to storage..."
                            /\ invoked' = [NotInvoked EXCEPT !["setUploading"] = 1,
                                                             !["put"] = 1]
                            /\ pc' = "Uploading"
    /\ UNCHANGED <<env, open, form, stores, preview>>

\* extractTextFromPdf settles; runGeminiAnalysis is called
ExtractReturn ==
    /\ pc = "Extracting"
    /\ LET r == extractTextFromPdf(selectedFile)
           out == [outcome EXCEPT !["extract"] =
                       IF selectedFile.readable THEN "ok" ELSE "error"]
       IN
       IF ~r.ok
       THEN /\ Fail("ExtractionError", toasts, invoked, out)
       ELSE /\ extractedText' = JStr(r.text)
            /\ uploadProgress' = "Analyzing with Gemini AI..."
            /\ invoked' = [invoked EXCEPT !["analyze"] = @ + 1]
            /\ outcome' = out
            /\ pc' = "Analyzing"
            /\ UNCHANGED <<uploading, toasts, error, aiAnalysis, parsedAnalysis,
                           documentData>>
    /\ UNCHANGED <<env, open, form, stores, calls, preview>>

\* runGeminiAnalysis settles: it throws without a key or when the service
\* fails, else it returns a text of outputs; the answer is parsed and the put
\* is started
AnalyzeSettles(outputs) ==
    /\ pc = "Analyzing"
    /\ \/ /\ toasts' = Append(toasts, "AI Analysis warning")
          /\ outcome' = [outcome EXCEPT !["analyze"] = "error"]
          /\ UNCHANGED <<aiAnalysis, parsedAnalysis>>
       \/ /\ geminiApiKey
          /\ \E text \in outputs :
              /\ aiAnalysis' = JStr(text)
              /\ parsedAnalysis' = ParseAnalysis(text)
          /\ outcome' = [outcome EXCEPT !["analyze"] = "ok"]
          /\ UNCHANGED toasts
    /\ uploadProgress' = "Uploading file to storage..."
    /\ invoked' = [invoked EXCEPT !["put"] = @ + 1]
    /\ pc' = "Uploading"
    /\ UNCHANGED <<env, open, form, uploading, extractedText, documentData, stores,
                   error, calls, preview>>

AnalyzeReturn == AnalyzeSettles(ModelOutputs)

\* the put settles; documentData is assembled and addDoc is called.  The
\* clock read for the key is the number of the call.
PutReturn ==
    /\ pc = "Uploading"
    /\ \E uploadError \in BOOLEAN :
        LET fileName == FileName(calls, documentTitle, selectedFile.name)
            out == [outcome EXCEPT !["put"] = IF uploadError THEN "error" ELSE "ok"]
        IN
        /\ objects' = IF uploadError THEN objects
                      ELSE Append(objects, [key |-> fileName,
                                            fileType |-> selectedFile.type])
        /\ IF PutThrows(uploadError)
           THEN Fail("StorageError", toasts, invoked, out)
           ELSE IF AssemblyThrows(parsedAnalysis)
           THEN Fail("TypeError", toasts, invoked, out)
           ELSE /\ documentData' = DocumentData(documentTitle, fileName,
                                                selectedFile.type, extractedText,
                                                parsedAnalysis)
                /\ uploadProgress' = "Saving document metadata to Firestore..."
                /\ invoked' = [invoked EXCEPT !["addDoc"] = @ + 1]
                /\ outcome' = out
                /\ pc' = "Persisting"
                /\ UNCHANGED <<uploading, toasts, error, extractedText,
                               aiAnalysis, parsedAnalysis>>
    /\ UNCHANGED <<env, open, form, documents, calls, preview>>

\* a failed write is tried once more before the call gives up
AddDocReturn_retry ==
    /\ pc = "Persisting"
    /\ \/ /\ documents' = Append(documents, documentData)
          /\ toasts' = Append(toasts, "Upload successful!")
          /\ selectedFile' = NoFile
          /\ documentTitle' = <<>>
          /\ aiOutput' = Null
          /\ previewText' = Null
          /\ open' = FALSE
          /\ pc' = "Done"
          /\ uploading' = FALSE
          /\ uploadProgress' = ""
          /\ outcome' = [outcome EXCEPT !["addDoc"] = "ok"]
          /\ Return
          /\ UNCHANGED <<objects, error, invoked>>
       \/ /\ invoked["addDoc"] < 2
          /\ invoked' = [invoked EXCEPT !["addDoc"] = @ + 1]
          /\ outcome' = [outcome EXCEPT !["addDoc"] = "error"]
          /\ UNCHANGED <<form, open, pc, uploading, uploadProgress, locals, stores,
                         toasts, error, shown>>
       \/ /\ invoked["addDoc"] >= 2
          /\ Fail("PersistenceError", Append(toasts, "Firestore save failed"), invoked,
                  [outcome EXCEPT !["addDoc"] = "error"])
          /\ objects' = StorageAfterFirestoreError(objects)
          /\ UNCHANGED <<documents, form, open, shown>>
    /\ UNCHANGED <<env, calls, handlers>>

\* addDoc settles; on success the form is reset and the modal closed
AddDocReturn ==
    /\ pc = "Persisting"
    /\ \/ /\ documents' = Append(documents, documentData)
          /\ toasts' = Append(toasts, "Upload successful!")
          /\ selectedFile' = NoFile
          /\ documentTitle' = <<>>
          /\ aiOutput' = Null
          /\ previewText' = Null
          /\ open' = FALSE
          /\ pc' = "Done"
          /\ uploading' = FALSE
          /\ uploadProgress' = ""
          /\ outcome' = [outcome EXCEPT !["addDoc"] = "ok"]
          /\ Return
          /\ UNCHANGED <<objects, error, invoked>>
       \/ /\ Fail("PersistenceError", Append(toasts, "Firestore save failed"), invoked,
                  [outcome EXCEPT !["addDoc"] = "error"])
          /\ objects' = StorageAfterFirestoreError(objects)
          /\ UNCHANGED <<documents, form, open, shown>>
    /\ UNCHANGED <<env, calls, handlers>>

Next ==
    \/ OpenModal
    \/ CloseModal
    \/ handleFileChange
    \/ handleRemoveFile
    \/ setDocumentTitle
    \/ handleUpload
    \/ ExtractReturn
    \/ AnalyzeReturn
    \/ PutReturn
    \/ AddDocReturn

Spec == Init /\ [][Next]_vars

(***************************************************************************)
(* The same component with a model that gives one answer of each kind: a   *)
(* report, a text JSON.parse rejects, a value the assembly of the record   *)
(* throws on, and null                                                     *)
(***************************************************************************)
FewOutputs ==
    {Object(<<Member(report_title, Str(T_Blood_test))>>), W_hello,
     Object(<<Member(tests, Array(<<TextNull>>))>>), TextNull}

AnalyzeReturnFew == AnalyzeSettles(FewOutputs)

NextFew ==
    \/ OpenModal
    \/ CloseModal
    \/ handleFileChange
    \/ handleRemoveFile
    \/ setDocumentTitle
    \/ handleUpload
    \/ ExtractReturn
    \/ AnalyzeReturnFew
    \/ PutReturn
    \/ AddDocReturn

\* every external call that was started returns or fails
FairSpec ==
    /\ Init /\ [][NextFew]_vars
    /\ WF_vars(ExtractReturn)
    /\ WF_vars(AnalyzeReturnFew)
    /\ WF_vars(PutReturn)
    /\ WF_vars(AddDocReturn)

(***************************************************************************)
(* The two preview buttons of the modal, Extract Text and Analyze with     *)
(* Gemini, one action per stretch of code between two awaits               *)
(***************************************************************************)
\* the answers of the model shown by handleAnalyze
PreviewOutputs == {Object(<<Member(summary, Str(W_ok))>>), TextNull}

\* Extract Text is clicked
handleExtract ==
    /\ Active /\ open /\ ~uploading /\ ~extractLoading /\ selectedFile # NoFile
    /\ IF selectedFile.type # PDF
       THEN /\ previewToast' = "Unsupported file"
            /\ UNCHANGED <<extractLoading, extractFile, previewText, uploadProgress>>
       ELSE /\ extractLoading' = TRUE
            /\ extractFile' = selectedFile
            /\ previewText' = Null
            /\ uploadProgress' = "Extracting text from PDF..."
            /\ UNCHANGED previewToast
    /\ UNCHANGED <<env, open, form, uploading, pc, locals, stores, toasts, error,
                   invoked, outcome, calls, aiLoading, analyzeStage, analyzeFile,
                   aiOutput>>

\* extractTextFromPdf settles in handleExtract
handleExtractReturn ==
    /\ extractLoading
    /\ LET r == extractTextFromPdf(extractFile) IN
       IF r.ok
       THEN /\ previewText' = JStr(r.text)
            /\ previewToast' = "Extraction successful"
       ELSE /\ previewToast' = "Extraction failed"
            /\ UNCHANGED previewText
    /\ uploadProgress' = ""
    /\ extractLoading' = FALSE
    /\ extractFile' = NoFile
    /\ UNCHANGED <<env, open, form, uploading, pc, locals, stores, toasts, error,
                   invoked, outcome, calls, aiLoading, analyzeStage, analyzeFile,
                   aiOutput>>

\* Analyze with Gemini is clicked
handleAnalyze ==
    /\ Active /\ open /\ ~uploading /\ ~aiLoading /\ selectedFile # NoFile
    /\ IF selectedFile.type # PDF
       THEN /\ previewToast' = "Unsupported file"
            /\ UNCHANGED <<aiLoading, analyzeStage, analyzeFile, aiOutput,
                           uploadProgress>>
       ELSE /\ aiLoading' = TRUE
            /\ analyzeStage' = "Extracting"
            /\ analyzeFile' = selectedFile
            /\ aiOutput' = Null
            /\ uploadProgress' = "Extracting text from PDF..."
            /\ UNCHANGED previewToast
    /\ UNCHANGED <<env, open, form, uploading, pc, locals, stores, toasts, error,
                   invoked, outcome, calls, extractLoading, extractFile, previewText>>

\* the catch and finally blocks of handleAnalyze
AnalysisFailed ==
    /\ previewToast' = "Analysis failed"
    /\ uploadProgress' = ""
    /\ aiLoading' = FALSE
    /\ analyzeStage' = "Idle"
    /\ analyzeFile' = NoFile
    /\ UNCHANGED aiOutput

\* extractTextFromPdf settles in handleAnalyze; runGeminiAnalysis is called
handleAnalyzeExtracted ==
    /\ analyzeStage = "Extracting"
    /\ IF extractTextFromPdf(analyzeFile).ok
       THEN /\ uploadProgress' = "Analyzing with Gemini..."
            /\ analyzeStage' = "Analyzing"
            /\ UNCHANGED <<aiLoading, analyzeFile, previewToast, aiOutput>>
       ELSE AnalysisFailed
    /\ UNCHANGED <<env, open, form, uploading, pc, locals, stores, toasts, error,
                   invoked, outcome, calls, extractLoading, extractFile, previewText>>

\* runGeminiAnalysis settles in handleAnalyze
handleAnalyzeReturn ==
    /\ analyzeStage = "Analyzing"
    /\ \/ AnalysisFailed
       \/ /\ geminiApiKey
          /\ \E text \in PreviewOutputs : aiOutput' = JStr(text)
          /\ previewToast' = "Analysis complete"
          /\ uploadProgress' = ""
          /\ aiLoading' = FALSE
          /\ analyzeStage' = "Idle"
          /\ analyzeFile' = NoFile
    /\ UNCHANGED <<env, open, form, uploading, pc, locals, stores, toasts, error,
                   invoked, outcome, calls, extractLoading, extractFile, previewText>>

NextPreview ==
    \/ NextFew
    \/ handleExtract
    \/ handleExtractReturn
    \/ handleAnalyze
    \/ handleAnalyzeExtracted
    \/ handleAnalyzeReturn

PreviewSpec == Init /\ [][NextPreview]_vars

(***************************************************************************)
(* The derivation of the record as a function of its inputs: records are   *)
(* assembled from a title and an answer of the model and collected         *)
(***************************************************************************)
\* number of records collected
MaxRecords == 2

DeriveTitles == {T_Blood_test, StripExt(N_report_pdf)}

Derive ==
    /\ Len(documents) < MaxRecords
    /\ \E title \in DeriveTitles, text \in ModelOutputs :
        LET pa == ParseAnalysis(text) IN
        /\ ~AssemblyThrows(pa)
        /\ documents' = Append(documents,
                DocumentData(title, FileName(Len(documents) + 1, title, N_report_pdf),
                             PDF, JStr(W_ok), pa))
    /\ UNCHANGED <<env, open, form, uploading, uploadProgress, pc, locals, objects,
                   toasts, error, invoked, outcome, calls, preview>>

InitDerive == Init /\ supabase /\ geminiApiKey

DeriveSpec == InitDerive /\ [][Derive]_vars

TypeOK ==
    /\ pc \in {"Idle", "Done", "Failed"} \cup InFlight
    /\ uploading \in BOOLEAN
    /\ uploading <=> pc \in InFlight
    /\ calls \in 0..MaxCalls
    /\ extractLoading \in BOOLEAN
    /\ extractLoading <=> extractFile # NoFile
    /\ aiLoading \in BOOLEAN
    /\ aiLoading <=> analyzeStage \in {"Extracting", "Analyzing"}
    /\ aiLoading <=> analyzeFile # NoFile
    /\ analyzeStage \in {"Idle", "Extracting", "Analyzing"}
    /\ aiOutput \in {Null} \cup {JStr(text) : text \in PreviewOutputs}

(***************************************************************************)
(* Properties                                                              *)
(***************************************************************************)
Surfaced == toasts # <<>> /\ toasts[Len(toasts)] = "Upload failed"

\* C1: addDoc is invoked only after the put of the same call returned
\* without error; when the put returns an error the call ends in Failed, the
\* error is shown to the user, addDoc is never invoked and no record of the
\* call's file exists.
C1_WriteOnlyAfterPut ==
    /\ invoked["addDoc"] > 0 => outcome["put"] = "ok"
    /\ outcome["put"] = "error" =>
          /\ pc = "Failed"
          /\ error = "StorageError"
          /\ Surfaced
          /\ invoked["addDoc"] = 0
          /\ outcome["addDoc"] = "none"
    /\ \A i \in 1..Len(documents) :
          \E j \in 1..Len(objects) : objects[j].key = documents[i].fileName

C1_Witness == pc = "Failed" /\ outcome["put"] = "error" /\ Surfaced

\* C2 (as claimed): when the analysis call of a PDF fails, the record handed
\* to addDoc has processingStatus "uploaded_without_analysis", category
\* "Uncategorized" and anomalies equal to the empty list.
C2_Claimed ==
    (pc = "Persisting" /\ outcome["analyze"] = "error") =>
        /\ documentData.processingStatus = "uploaded_without_analysis"
        /\ documentData.category = "Uncategorized"
        /\ documentData.anomalies = JArr(<<>>)

\* C3 (as claimed): once the model has returned a text, the call fails only
\* when the put or the database write fails.
C3_Claimed ==
    (pc = "Failed" /\ outcome["analyze"] = "ok") =>
        (outcome["put"] = "error" \/ outcome["addDoc"] = "error")

\* the model's answer of the current call is one JSON.parse rejects
MalformedAnswer == aiAnalysis.t = "string" /\ aiAnalysis.v \in MalformedOutputs

\* C4 (as claimed): for every answer that is not valid JSON, the empty text
\* included, the findings of the record have the raw answer as summary and
\* an empty tests list.
C4_Claimed ==
    (pc = "Persisting" /\ MalformedAnswer) =>
        /\ documentData.aiAnalysis.summary = aiAnalysis
        /\ documentData.aiAnalysis.tests = JArr(<<>>)

\* C4 (amended): for every answer that JSON.parse rejects after the fences
\* are stripped, parsing raises nothing (the call goes on to the put and
\* fails only when the put fails), and the findings of the record have an
\* empty tests list and the raw answer as summary, except that the empty
\* answer is stored with the summary "No summary available".
C4_FallbackFindings ==
    /\ [](MalformedAnswer =>
            /\ pc \in {"Uploading", "Persisting"}
            /\ pc = "Persisting" =>
                  /\ documentData.processingStatus = "completed"
                  /\ documentData.aiAnalysis.tests = JArr(<<>>)
                  /\ documentData.aiAnalysis.summary =
                        IF aiAnalysis.v = <<>> THEN JStr(NoSummaryAvailable)
                        ELSE aiAnalysis)
    /\ [][(MalformedAnswer /\ pc = "Uploading" /\ pc' = "Failed")
              => outcome'["put"] = "error"]_vars

C4_Witness ==
    /\ pc = "Persisting" /\ MalformedAnswer /\ aiAnalysis.v # <<>>
    /\ aiAnalysis.v # trim(aiAnalysis.v)
    /\ documentData.aiAnalysis.summary = aiAnalysis

\* C5 (as claimed): a well-formed answer wrapped in a tagged or an untagged
\* fence parses to the same value as the answer itself, also when a string
\* of the answer holds fence characters.
C5_Claimed ==
    \A text \in Fenceable :
        (aiAnalysis.t = "string"
         /\ aiAnalysis.v \in {TaggedFence(text), UntaggedFence(text)})
            => parsedAnalysis = ParseAnalysis(text)

Blank(title) == \A i \in 1..Len(title) : title[i] \in {" ", NL}

\* C6: when no file is selected or the title is empty or blank, a click on
\* Upload & Process fails validation: no stage is invoked, the uploading
\* flag is not set, nothing is stored or written.
C6_ValidationFirst ==
    [][(pc \notin InFlight /\ (selectedFile = NoFile \/ Blank(documentTitle))
        /\ UNCHANGED <<form, open>>)
          => /\ pc' = "Failed"
             /\ error' = "ValidationError"
             /\ toasts' = <<"Missing information">>
             /\ invoked' = NotInvoked
             /\ outcome' = NoOutcome
             /\ uploading' = FALSE
             /\ UNCHANGED <<stores, calls>>]_vars

C6_Witness ==
    /\ pc = "Failed" /\ error = "ValidationError"
    /\ selectedFile # NoFile /\ documentTitle # <<>>
    /\ invoked = NotInvoked

\* C7: when the extraction of a PDF fails, the call ends in Failed with the
\* error shown to the user, and in that call the analysis is not invoked,
\* no put is made and addDoc is not invoked.
C7_ExtractionFailureAborts ==
    outcome["extract"] = "error" =>
        /\ pc = "Failed"
        /\ error = "ExtractionError"
        /\ Surfaced
        /\ invoked["analyze"] = 0 /\ outcome["analyze"] = "none"
        /\ invoked["put"] = 0 /\ outcome["put"] = "none"
        /\ invoked["addDoc"] = 0 /\ outcome["addDoc"] = "none"

C7_Witness ==
    /\ pc = "Failed" /\ outcome["extract"] = "error" /\ invoked["extract"] = 1
    /\ Surfaced

\* the stored files that no record names
Orphans == {j \in 1..Len(objects) :
               \A i \in 1..Len(documents) : documents[i].fileName # objects[j].key}

\* C8: when the database write fails after the put succeeded, the call ends
\* in Failed with the error shown to the user, the file stored by the call
\* stays in the object store and no record names it; the write is not tried
\* again and nothing is ever deleted from the object store.
C8_OrphanOnWriteFailure ==
    /\ [](outcome["addDoc"] = "error" =>
            /\ pc = "Failed"
            /\ error = "PersistenceError"
            /\ Surfaced
            /\ outcome["put"] = "ok"
            /\ invoked["put"] = 1 /\ invoked["addDoc"] = 1
            /\ objects # <<>> /\ Len(objects) \in Orphans)
    /\ [][(pc = "Persisting" /\ pc' = "Failed")
             => (objects' = objects /\ documents' = documents)]_vars
    /\ [][Len(objects') >= Len(objects)]_vars

C8_Witness ==
    /\ pc = "Failed" /\ outcome["addDoc"] = "error" /\ outcome["put"] = "ok"
    /\ Orphans # {}

NonPdfTypes == {"image/jpeg", "image/png", "image/jpg"}

\* C9: for a file of an accepted type other than PDF the call invokes
\* neither the extraction nor the analysis, goes straight to the put and the
\* database write, and the record has processingStatus
\* "uploaded_without_analysis".
C9_ImagesSkipAnalysis ==
    /\ (uploading /\ selectedFile.type \in NonPdfTypes) =>
          /\ invoked["extract"] = 0 /\ invoked["analyze"] = 0
          /\ invoked["put"] = 1
          /\ pc \in {"Uploading", "Persisting"}
          /\ pc = "Persisting" =>
                /\ documentData.processingStatus = "uploaded_without_analysis"
                /\ documentData.aiAnalysis = Undefined
    /\ \A i \in 1..Len(documents) :
          documents[i].fileType \in NonPdfTypes =>
              /\ documents[i].processingStatus = "uploaded_without_analysis"
              /\ documents[i].extractedText = Undefined
              /\ documents[i].aiAnalysis = Undefined

C9_Witness ==
    /\ pc = "Done" /\ invoked["extract"] = 0 /\ invoked["analyze"] = 0
    /\ documents # <<>>
    /\ documents[Len(documents)].fileType = "image/jpeg"
    /\ documents[Len(documents)].processingStatus = "uploaded_without_analysis"

\* the same letter, in either case
SameLetter(c, d) ==
    c = d \/ \E i \in 1..26 : {c, d} = {Upper[i], Lower[i]}

\* keyword occurs in title, letters compared without regard to case
Mentions(title, keyword) ==
    \E i \in 1..Len(title) :
        /\ i + Len(keyword) - 1 <= Len(title)
        /\ \A k \in 1..Len(keyword) : SameLetter(title[i + k - 1], keyword[k])

Rules == << <<blood, "Blood Test">>, <<kidney, "Kidney Function">>,
            <<liver, "Liver Function">>, <<thyroid, "Thyroid">>,
            <<prescription, "Prescription">> >>

\* the category of the first rule whose keyword the title mentions
RuleCategory(title) ==
    LET hits == {r \in 1..Len(Rules) : Mentions(title, Rules[r][1])} IN
    IF hits = {} THEN "General Medical Report"
    ELSE Rules[CHOOSE r \in hits : \A r2 \in hits : r <= r2][2]

\* the report title the model gave, empty when it gave none
GivenTitle ==
    IF Prop(parsedAnalysis, report_title).t = "string"
    THEN Prop(parsedAnalysis, report_title).v
    ELSE <<>>

\* C10: the category of an analysed record is that of the first rule, in the
\* order blood, kidney, liver, thyroid, prescription, whose keyword occurs in
\* the model's report title without regard to case, and "General Medical
\* Report" when no keyword occurs.
C10_CategoryByFirstRule ==
    (pc = "Persisting" /\ documentData.processingStatus = "completed") =>
        documentData.category = RuleCategory(GivenTitle)

C10_Witness ==
    /\ pc = "Persisting" /\ documentData.processingStatus = "completed"
    /\ Mentions(GivenTitle, kidney) /\ Mentions(GivenTitle, blood)
    /\ documentData.category = "Blood Test"

Completed(d) == d.processingStatus = "completed"

\* C11 (as claimed): two records with processingStatus "completed" and the
\* same stored reportTitle have the same category.
C11_Claimed ==
    \A i, j \in 1..Len(documents) :
        (/\ Completed(documents[i]) /\ Completed(documents[j])
         /\ documents[i].aiAnalysis.reportTitle = documents[j].aiAnalysis.reportTitle)
            => documents[i].category = documents[j].category

\* the line of a test: "{parameter}: {value} {unit} ({status})"
Rendered(test) ==
    ToText(Prop(test, parameter)) \o <<":", " ">> \o ToText(Prop(test, value))
    \o <<" ">> \o ToText(Prop(test, unit)) \o <<" ", "(">>
    \o ToText(Prop(test, status)) \o <<")">>

AnomaliesMatch(d) ==
    Completed(d) =>
        LET ts == d.aiAnalysis.tests IN
        IF ts.t = "array"
        THEN /\ d.anomalies.t = "array"
             /\ Len(d.anomalies.v) = Len(ts.v)
             /\ \A k \in 1..Len(ts.v) : d.anomalies.v[k] = JStr(Rendered(ts.v[k]))
             /\ d.anomalyCount = JNum(Len(ts.v))
             /\ d.hasAnomalies = JBool(Len(ts.v) > 0)
        ELSE /\ d.anomalies = JArr(<<>>)
             /\ d.anomalyCount = JNum(0)
             /\ d.hasAnomalies = JBool(FALSE)

\* C12: in every record with findings, anomalies holds one line per stored
\* test, in the order of the tests, each "{parameter}: {value} {unit}
\* ({status})"; anomalyCount is the number of stored tests and hasAnomalies
\* is true exactly when that number is above zero.
C12_AnomaliesFollowTests ==
    /\ pc = "Persisting" => AnomaliesMatch(documentData)
    /\ \A i \in 1..Len(documents) : AnomaliesMatch(documents[i])

C12_Witness ==
    /\ pc = "Done" /\ documents # <<>>
    /\ LET d == documents[Len(documents)] IN
       /\ Completed(d)
       /\ d.anomalyCount = JNum(2)
       /\ d.hasAnomalies = JBool(TRUE)
       /\ d.anomalies.v[1] =
            JStr(<<"H", "b", ":", " ", "9", " ", "g", " ", "(", "L", "O", "W", ")">>)
       /\ Prop(d.aiAnalysis.tests.v[2], parameter) = JStr(W_Na)

\* C13 (as claimed): every test of a persisted record has the status LOW or
\* HIGH.
C13_Claimed ==
    \A i \in 1..Len(documents) :
        (Completed(documents[i]) /\ documents[i].aiAnalysis.tests.t = "array") =>
            \A k \in 1..Len(documents[i].aiAnalysis.tests.v) :
                LET test == documents[i].aiAnalysis.tests.v[k] IN
                test.t = "object" => Prop(test, status) \in {JStr(W_LOW), JStr(W_HIGH)}

\* C14 (as claimed): when the extraction yields the empty text the analysis
\* is not invoked and the record has processingStatus
\* "uploaded_without_analysis".
C14_Claimed ==
    extractedText = JStr(<<>>) =>
        /\ invoked["analyze"] = 0
        /\ pc = "Persisting" =>
              documentData.processingStatus = "uploaded_without_analysis"

\* C15 (as claimed): the record has processingStatus "completed" exactly when
\* the analysis call returned a text, whatever the text parses to.
C15_Claimed ==
    pc = "Persisting" =>
        (Completed(documentData) <=> outcome["analyze"] = "ok")

\* the answers that parse to null, false, 0 or the empty string
FalsyOutputs == {TextNull, TextFalse, <<"0">>, Str(<<>>)}

\* C15 (amended): the record has processingStatus "completed" exactly when
\* the analysis call returned a text that does not parse to null, false, 0 or
\* the empty string (a text JSON.parse rejects counts, through the fallback);
\* otherwise, also when the analysis was skipped or the call failed, it has
\* "uploaded_without_analysis".
C15_StatusFollowsAnswer ==
    pc = "Persisting" =>
        /\ documentData.processingStatus \in {"completed", "uploaded_without_analysis"}
        /\ Completed(documentData) <=>
              (outcome["analyze"] = "ok" /\ aiAnalysis.v \notin FalsyOutputs)

C15_Witness ==
    /\ pc = "Persisting" /\ outcome["analyze"] = "ok" /\ aiAnalysis.v = TextNull
    /\ documentData.processingStatus = "uploaded_without_analysis"

\* C16: within a call every stage is invoked at most once, a failed stage is
\* not invoked again, and a call that ends in Done has made one put and
\* then one database write.
C16_EachStageOnce ==
    /\ \A st \in Stages : invoked[st] <= 1
    /\ \A st \in Stages : outcome[st] # "none" => invoked[st] = 1
    /\ \A st \in {"extract", "put", "addDoc"} : outcome[st] = "error" => pc = "Failed"
    /\ invoked["addDoc"] = 1 => outcome["put"] = "ok"
    /\ pc = "Done" =>
          /\ invoked["put"] = 1 /\ outcome["put"] = "ok"
          /\ invoked["addDoc"] = 1 /\ outcome["addDoc"] = "ok"

C16_Witness ==
    /\ pc = "Done"
    /\ invoked = [NotInvoked EXCEPT !["setUploading"] = 1, !["extract"] = 1,
                                    !["analyze"] = 1, !["put"] = 1, !["addDoc"] = 1]
    /\ outcome["analyze"] = "error"

\* the place of a progress message in the order extracting, analyzing,
\* uploading, saving; 0 for the blank message
Rank(message) ==
    CASE message = "Extracting text from PDF..." -> 1
      [] message \in {"Analyzing with Gemini AI...", "Analyzing with Gemini..."} -> 2
      [] message = "Uploading file to storage..." -> 3
      [] message = "Saving document metadata to Firestore..." -> 4
      [] OTHER -> 0

\* the place of the message handleUpload set when it entered its stage
StageRank ==
    CASE pc = "Extracting" -> 1
      [] pc = "Analyzing" -> 2
      [] pc = "Uploading" -> 3
      [] pc = "Persisting" -> 4
      [] OTHER -> 0

\* C17 (as claimed): while a call of handleUpload is in flight, also with a
\* preview handler in flight, the progress message is not blank and is not
\* an earlier message than the one of the stage the call has reached.
C17_Claimed ==
    pc \in InFlight => Rank(uploadProgress) >= StageRank /\ Rank(uploadProgress) > 0

Exits == {"Done", "Failed"}

====
